---- MODULE Spec2Model ----
(***************************************************************************)
(* A model of core::Query (Firestore/core/src/core/query.cc): the builder  *)
(* methods, order-by normalization, the matching predicate, the derivation *)
(* of the Target and the lazily memoized members.                          *)
(*                                                                         *)
(* An absl::optional / nullable pointer is a sequence of length 0 or 1.    *)
(* A ResourcePath is a sequence of segments, a FieldPath a string.         *)
(***************************************************************************)
EXTENDS Integers, Sequences, FiniteSets, TLC

VARIABLES
    q,        \* the Query value the caller currently holds
    recv,     \* the receiver of the last builder call, as that call left it
    op,       \* name of the last operation called
    arg,      \* its argument
    ret,      \* what the last accessor call returned (as an optional)
    fatal,    \* message of the HARD_ASSERT / HARD_FAIL that ended the process
    pc,       \* per thread: where it stands in a memoizing accessor
    fn,       \* per thread: the accessor it called
    seen,     \* per thread: the list its normalized_order_bys() call handed it
    ref,      \* per thread: the Target object its returned reference points at
    got,      \* per thread: what the caller reads through the returned reference
    alloc     \* per shared_ptr member: the thread whose Target it owns, or 0

vars == <<q, recv, op, arg, ret, fatal, pc, fn, seen, ref, got, alloc>>

----------------------------------------------------------------------------
(* Bounds of the model *)

MaxFilters == 2
MaxOrderBys == 2

(* Target::kNoLimit, the limit of a query without one *)
kNoLimit == 2147483647

None == <<>>
Some(x) == <<x>>

----------------------------------------------------------------------------
(* Collaborators: FieldPath, ResourcePath, DocumentKey, Document *)

KeyFieldPath == "__name__"

IsKeyFieldPath(field) == field = KeyFieldPath

DataFields == {"score", "rank"}

IsPrefixOf(p, path) ==
    /\ Len(p) <= Len(path)
    /\ SubSeq(path, 1, Len(p)) = p

IsImmediateParentOf(p, path) ==
    /\ Len(p) + 1 = Len(path)
    /\ IsPrefixOf(p, path)

(* "path denotes a document (odd path-segment count ...)" *)
IsDocumentKey(path) == Len(path) % 2 = 1

HasCollectionGroup(path, group) ==
    /\ Len(path) >= 2
    /\ path[Len(path) - 1] = group

SegmentRank(s) ==
    CASE s = "a" -> 1
      [] s = "b" -> 2
      [] s = "c" -> 3
      [] OTHER -> 4

MaxPathLen == 3

RECURSIVE KeyOrdAcc(_, _, _)
KeyOrdAcc(path, i, acc) ==
    IF i > MaxPathLen THEN acc
    ELSE KeyOrdAcc(path, i + 1,
                   5 * acc + (IF i <= Len(path) THEN SegmentRank(path[i]) ELSE 0))

(* the position of a document key in the order of keys, as a number *)
KeyOrd(path) == KeyOrdAcc(path, 1, 0)

Document(found, path, score, rank) ==
    [found |-> found, path |-> path,
     data |-> [f \in DataFields |-> IF f = "score" THEN score ELSE rank]]

(* doc->field(field_path): the value at the path, if the document has one *)
DocField(doc, field) == doc.data[field]

----------------------------------------------------------------------------
(* Collaborators: Filter (FieldFilter, CompositeFilter) *)

FieldFilter(field, operator, value) ==
    [kind |-> "field", field |-> field, op |-> operator, value |-> value,
     subs |-> <<>>]

CompositeFilter(kind, subs) ==
    [kind |-> kind, field |-> "", op |-> "", value |-> 0, subs |-> subs]

IsInequality(operator) == operator \in {"<", "<=", ">", ">=", "!=", "not-in"}

RECURSIVE GetFlattenedFilters(_)
GetFlattenedFilters(f) ==
    IF f.kind = "field" THEN <<f>>
    ELSE IF f.subs = <<>> THEN <<>>
    ELSE GetFlattenedFilters(Head(f.subs))
           \o GetFlattenedFilters([f EXCEPT !.subs = Tail(f.subs)])

GetFirstInequalityField(f) ==
    LET leaves == GetFlattenedFilters(f)
        hits == {i \in 1..Len(leaves) : IsInequality(leaves[i].op)}
    IN IF hits = {} THEN None
       ELSE Some(leaves[CHOOSE i \in hits : \A j \in hits : i <= j].field)

CompareOp(operator, have, want) ==
    CASE operator = "<" -> have < want
      [] operator = "<=" -> have <= want
      [] operator = ">" -> have > want
      [] operator = ">=" -> have >= want
      [] operator = "==" -> have = want
      [] operator = "!=" -> have # want
      [] OTHER -> FALSE

RECURSIVE FilterMatches(_, _)
FilterMatches(f, doc) ==
    IF f.kind = "field" THEN
        IF IsKeyFieldPath(f.field) THEN CompareOp(f.op, KeyOrd(doc.path), f.value)
        ELSE /\ DocField(doc, f.field) # None
             /\ CompareOp(f.op, DocField(doc, f.field)[1], f.value)
    ELSE IF f.kind = "and" THEN
        \A i \in 1..Len(f.subs) : FilterMatches(f.subs[i], doc)
    ELSE
        \E i \in 1..Len(f.subs) : FilterMatches(f.subs[i], doc)

----------------------------------------------------------------------------
(* Collaborators: OrderBy, Bound, Target *)

OrderBy(field, direction) == [field |-> field, direction |-> direction]

Bound(position, inclusive) == [position |-> position, inclusive |-> inclusive]

Sign(have, want) == IF have < want THEN -1 ELSE IF have > want THEN 1 ELSE 0

RECURSIVE CompareToDocument(_, _, _, _)
CompareToDocument(bound, order_bys, doc, i) ==
    IF i > Len(bound.position) THEN 0
    ELSE LET ob == order_bys[i]
             docValue == IF IsKeyFieldPath(ob.field) THEN KeyOrd(doc.path)
                         ELSE DocField(doc, ob.field)[1]
             c == Sign(bound.position[i], docValue)
             directed == IF ob.direction = "Descending" THEN -c ELSE c
         IN IF directed # 0 THEN directed
            ELSE CompareToDocument(bound, order_bys, doc, i + 1)

SortsBeforeDocument(bound, order_bys, doc) ==
    LET c == CompareToDocument(bound, order_bys, doc, 1)
    IN IF bound.inclusive THEN c <= 0 ELSE c < 0

SortsAfterDocument(bound, order_bys, doc) ==
    LET c == CompareToDocument(bound, order_bys, doc, 1)
    IN IF bound.inclusive THEN c >= 0 ELSE c > 0

Target(path, collection_group, filters, order_bys, limit, start_at, end_at) ==
    [path |-> path, collection_group |-> collection_group, filters |-> filters,
     order_bys |-> order_bys, limit |-> limit, start_at |-> start_at,
     end_at |-> end_at]

----------------------------------------------------------------------------
(* Query: construction and accessors *)

(* the member-wise constructor the builders return through: the memoized *)
(* members of the new value start out empty                              *)
MakeQuery(path, collection_group, filters, explicit_order_bys, limit, limit_type, start_at, end_at) ==
    [path |-> path, collection_group |-> collection_group,
     filters |-> filters, explicit_order_bys |-> explicit_order_bys,
     limit |-> limit, limit_type |-> limit_type,
     start_at |-> start_at, end_at |-> end_at,
     memoized_normalized_order_bys |-> <<>>,
     memoized_target |-> None,
     memoized_aggregate_target |-> None]

(* Query(path, collection_group); collection_group = None is Query(path) *)
Query(path, collection_group) ==
    MakeQuery(path, collection_group, <<>>, <<>>, kNoLimit, "None", None, None)

IsDocumentQuery(qq) ==
    /\ IsDocumentKey(qq.path)
    /\ qq.collection_group = None
    /\ qq.filters = <<>>

RECURSIVE FirstInequalityIn(_)
FirstInequalityIn(filters) ==
    IF filters = <<>> THEN None
    ELSE LET found == GetFirstInequalityField(Head(filters))
         IN IF found # None THEN found ELSE FirstInequalityIn(Tail(filters))

InequalityFilterField(qq) == FirstInequalityIn(qq.filters)

FirstOrderByField(qq) ==
    IF qq.explicit_order_bys = <<>> THEN None
    ELSE Some(Head(qq.explicit_order_bys).field)

(* as ComputeNormalizedOrderBys, forgetting the implicit key ordering *)
ComputeNormalizedOrderBys_NoImplicitKey(qq) ==
    LET inequality_field == InequalityFilterField(qq)
    IN IF inequality_field # None /\ FirstOrderByField(qq) = None
       THEN <<OrderBy(inequality_field[1], "Ascending")>>
       ELSE qq.explicit_order_bys

(* as ComputeNormalizedOrderBys, the implicit key ordering always ascending *)
ComputeNormalizedOrderBys_AscendingKey(qq) ==
    LET inequality_field == InequalityFilterField(qq)
    IN IF inequality_field # None /\ FirstOrderByField(qq) = None THEN
           IF IsKeyFieldPath(inequality_field[1]) THEN
               <<OrderBy(KeyFieldPath, "Ascending")>>
           ELSE
               <<OrderBy(inequality_field[1], "Ascending"),
                 OrderBy(KeyFieldPath, "Ascending")>>
       ELSE IF \E i \in 1..Len(qq.explicit_order_bys) :
                   IsKeyFieldPath(qq.explicit_order_bys[i].field)
       THEN qq.explicit_order_bys
       ELSE Append(qq.explicit_order_bys, OrderBy(KeyFieldPath, "Ascending"))

(* lines 96-137: what the first call computes and stores *)
ComputeNormalizedOrderBys(qq) ==
    LET inequality_field == InequalityFilterField(qq)
        first_order_by_field == FirstOrderByField(qq)
    IN IF inequality_field # None /\ first_order_by_field = None THEN
           IF IsKeyFieldPath(inequality_field[1]) THEN
               <<OrderBy(KeyFieldPath, "Ascending")>>
           ELSE
               <<OrderBy(inequality_field[1], "Ascending"),
                 OrderBy(KeyFieldPath, "Ascending")>>
       ELSE
           LET found_explicit_key_order ==
                   \E i \in 1..Len(qq.explicit_order_bys) :
                       IsKeyFieldPath(qq.explicit_order_bys[i].field)
               last_direction ==
                   IF qq.explicit_order_bys = <<>> THEN "Ascending"
                   ELSE qq.explicit_order_bys[Len(qq.explicit_order_bys)].direction
           IN IF found_explicit_key_order THEN qq.explicit_order_bys
              ELSE Append(qq.explicit_order_bys,
                          OrderBy(KeyFieldPath, last_direction))

(* the HARD_ASSERT of lines 111-115, reached on the first call only and *)
(* only in the else branch: "" when it passes                           *)
NormalizedOrderBysFatal(qq) ==
    LET inequality_field == InequalityFilterField(qq)
        first_order_by_field == FirstOrderByField(qq)
    IN IF /\ qq.memoized_normalized_order_bys = <<>>
          /\ ~(inequality_field # None /\ first_order_by_field = None)
          /\ ~(inequality_field = None \/ inequality_field = first_order_by_field)
       THEN "First orderBy should match inequality field"
       ELSE ""

(* the query after a call of normalized_order_bys() that returned *)
AfterNormalizedOrderBys(qq) ==
    IF qq.memoized_normalized_order_bys = <<>>
    THEN [qq EXCEPT !.memoized_normalized_order_bys = ComputeNormalizedOrderBys(qq)]
    ELSE qq

(* what normalized_order_bys() returns: the memoized member *)
normalized_order_bys(qq) == AfterNormalizedOrderBys(qq).memoized_normalized_order_bys

----------------------------------------------------------------------------
(* Query: builder methods *)

(* as AddingFilterFatal, without the document-query assertion *)
AddingFilterFatal_NoDocumentCheck(qq, filter) ==
    LET new_inequality_field == GetFirstInequalityField(filter)
        query_inequality_field == InequalityFilterField(qq)
    IN IF ~(\/ query_inequality_field = None
            \/ new_inequality_field = None
            \/ query_inequality_field = new_inequality_field)
       THEN "Query must only have one inequality field."
       ELSE IF ~(\/ qq.explicit_order_bys = <<>>
                 \/ new_inequality_field = None
                 \/ qq.explicit_order_bys[1].field = new_inequality_field[1])
       THEN "First orderBy must match inequality field"
       ELSE ""

AddingFilterFatal(qq, filter) ==
    LET new_inequality_field == GetFirstInequalityField(filter)
        query_inequality_field == InequalityFilterField(qq)
    IN IF IsDocumentQuery(qq) THEN "No filter is allowed for document query"
       ELSE IF ~(\/ query_inequality_field = None
                 \/ new_inequality_field = None
                 \/ query_inequality_field = new_inequality_field)
       THEN "Query must only have one inequality field."
       ELSE IF ~(\/ qq.explicit_order_bys = <<>>
                 \/ new_inequality_field = None
                 \/ qq.explicit_order_bys[1].field = new_inequality_field[1])
       THEN "First orderBy must match inequality field"
       ELSE ""

AddingFilter(qq, filter) ==
    MakeQuery(qq.path, qq.collection_group, Append(qq.filters, filter),
              qq.explicit_order_bys, qq.limit, qq.limit_type,
              qq.start_at, qq.end_at)

(* as AddingOrderByFatal, without the inequality assertion *)
AddingOrderByFatal_NoInequalityCheck(qq, order_by) ==
    IF IsDocumentQuery(qq) THEN "No ordering is allowed for document query"
    ELSE ""

AddingOrderByFatal(qq, order_by) ==
    IF IsDocumentQuery(qq) THEN "No ordering is allowed for document query"
    ELSE IF /\ qq.explicit_order_bys = <<>>
            /\ ~(\/ InequalityFilterField(qq) = None
                  \/ InequalityFilterField(qq)[1] = order_by.field)
    THEN "First OrderBy must match inequality field."
    ELSE ""

AddingOrderBy(qq, order_by) ==
    MakeQuery(qq.path, qq.collection_group, qq.filters,
              Append(qq.explicit_order_bys, order_by), qq.limit, qq.limit_type,
              qq.start_at, qq.end_at)

WithLimitToFirst(qq, limit) ==
    MakeQuery(qq.path, qq.collection_group, qq.filters, qq.explicit_order_bys,
              limit, "First", qq.start_at, qq.end_at)

WithLimitToLast(qq, limit) ==
    MakeQuery(qq.path, qq.collection_group, qq.filters, qq.explicit_order_bys,
              limit, "Last", qq.start_at, qq.end_at)

StartingAt(qq, bound) ==
    MakeQuery(qq.path, qq.collection_group, qq.filters, qq.explicit_order_bys,
              qq.limit, qq.limit_type, Some(bound), qq.end_at)

EndingAt(qq, bound) ==
    MakeQuery(qq.path, qq.collection_group, qq.filters, qq.explicit_order_bys,
              qq.limit, qq.limit_type, qq.start_at, Some(bound))

(* as AsCollectionQueryAtPath, keeping the collection group *)
AsCollectionQueryAtPath_KeepsGroup(qq, path) ==
    MakeQuery(path, qq.collection_group, qq.filters, qq.explicit_order_bys,
              qq.limit, qq.limit_type, qq.start_at, qq.end_at)

AsCollectionQueryAtPath(qq, path) ==
    MakeQuery(path, None, qq.filters, qq.explicit_order_bys,
              qq.limit, qq.limit_type, qq.start_at, qq.end_at)

----------------------------------------------------------------------------
(* Query: matching *)

(* as MatchesPathAndCollectionGroup, any ancestor collection matching *)
MatchesPathAndCollectionGroup_AnyAncestor(qq, doc) ==
    IF qq.collection_group # None THEN
        /\ HasCollectionGroup(doc.path, qq.collection_group[1])
        /\ IsPrefixOf(qq.path, doc.path)
    ELSE IF IsDocumentKey(qq.path) THEN
        qq.path = doc.path
    ELSE
        IsPrefixOf(qq.path, doc.path)

MatchesPathAndCollectionGroup(qq, doc) ==
    IF qq.collection_group # None THEN
        /\ HasCollectionGroup(doc.path, qq.collection_group[1])
        /\ IsPrefixOf(qq.path, doc.path)
    ELSE IF IsDocumentKey(qq.path) THEN
        qq.path = doc.path
    ELSE
        IsImmediateParentOf(qq.path, doc.path)

MatchesFilters(qq, doc) ==
    \A i \in 1..Len(qq.filters) : FilterMatches(qq.filters[i], doc)

(* as MatchesOrderBy, not looking at the document *)
MatchesOrderBy_FieldsNotRequired(qq, doc) == TRUE

MatchesOrderBy(qq, doc) ==
    \A i \in 1..Len(normalized_order_bys(qq)) :
        LET field_path == normalized_order_bys(qq)[i].field
        IN ~(field_path # KeyFieldPath /\ DocField(doc, field_path) = None)

MatchesBounds(qq, doc) ==
    /\ ~(/\ qq.start_at # None
          /\ ~SortsBeforeDocument(qq.start_at[1], normalized_order_bys(qq), doc))
    /\ ~(/\ qq.end_at # None
          /\ ~SortsAfterDocument(qq.end_at[1], normalized_order_bys(qq), doc))

Matches(qq, doc) ==
    /\ doc.found
    /\ MatchesPathAndCollectionGroup(qq, doc)
    /\ MatchesOrderBy(qq, doc)
    /\ MatchesFilters(qq, doc)
    /\ MatchesBounds(qq, doc)

(* Matches() reaches normalized_order_bys() only past the first two conjuncts *)
MatchesNormalizes(qq, doc) ==
    doc.found /\ MatchesPathAndCollectionGroup(qq, doc)

----------------------------------------------------------------------------
(* Query: the Target *)

FlipDirection(order_by) ==
    OrderBy(order_by.field,
            IF order_by.direction = "Descending" THEN "Ascending"
            ELSE "Descending")

SwappedBound(bound) ==
    IF bound # None THEN Some(Bound(bound[1].position, bound[1].inclusive))
    ELSE None

(* as ToTargetOf, flipping the directions but leaving the cursors in place *)
ToTargetOf_CursorsNotSwapped(qq, order_bys) ==
    Target(qq.path, qq.collection_group, qq.filters,
           IF qq.limit_type = "Last"
           THEN [i \in 1..Len(order_bys) |-> FlipDirection(order_bys[i])]
           ELSE order_bys,
           qq.limit, qq.start_at, qq.end_at)

(* ToTarget(const std::vector<OrderBy>&) *)
ToTargetOf(qq, order_bys) ==
    IF qq.limit_type = "Last" THEN
        LET new_order_bys == [i \in 1..Len(order_bys) |-> FlipDirection(order_bys[i])]
            new_start_at == SwappedBound(qq.end_at)
            new_end_at == SwappedBound(qq.start_at)
        IN Target(qq.path, qq.collection_group, qq.filters, new_order_bys,
                  qq.limit, new_start_at, new_end_at)
    ELSE
        Target(qq.path, qq.collection_group, qq.filters, order_bys, qq.limit,
               qq.start_at, qq.end_at)

ToTargetFatal(qq) ==
    IF qq.memoized_target = None THEN NormalizedOrderBysFatal(qq) ELSE ""

(* the query after a call of ToTarget() that returned *)
AfterToTarget(qq) ==
    IF qq.memoized_target = None THEN
        LET n == AfterNormalizedOrderBys(qq)
        IN [n EXCEPT !.memoized_target =
                Some(ToTargetOf(n, n.memoized_normalized_order_bys))]
    ELSE qq

(* the query after a call of ToAggregateTarget() *)
AfterToAggregateTarget(qq) ==
    IF qq.memoized_aggregate_target = None THEN
        [qq EXCEPT !.memoized_aggregate_target =
            Some(ToTargetOf(qq, qq.explicit_order_bys))]
    ELSE qq

----------------------------------------------------------------------------
(* The callers: one action per method of Query *)

Threads == {1, 2}

NoThreads ==
    /\ pc = [t \in Threads |-> "idle"]

ThreadsUnchanged == UNCHANGED <<pc, fn, seen, ref, got, alloc>>

Running == fatal = "" /\ NoThreads

(* a failed HARD_ASSERT ends the process: no object survives it *)
Abort(name, message) ==
    /\ fatal' = message
    /\ op' = name
    /\ q' = Query(<<>>, None)
    /\ recv' = Query(<<>>, None)
    /\ arg' = None
    /\ ret' = None
    /\ ThreadsUnchanged

(* a builder returned: the caller goes on with the new value, the receiver *)
(* stays as the const method left it                                       *)
Built(name, input, result) ==
    /\ q' = result
    /\ recv' = q
    /\ op' = name
    /\ arg' = Some(input)
    /\ ret' = None
    /\ UNCHANGED fatal
    /\ ThreadsUnchanged

(* an accessor returned; the memoized members of the query may be set now *)
Returned(name, input, after, result) ==
    /\ q' = after
    /\ op' = name
    /\ arg' = input
    /\ ret' = Some(result)
    /\ UNCHANGED <<recv, fatal>>
    /\ ThreadsUnchanged

AddingFilterCall(inputs) ==
    /\ Running
    /\ Len(q.filters) < MaxFilters
    /\ \E filter \in inputs :
          IF AddingFilterFatal(q, filter) # ""
          THEN Abort("AddingFilter", AddingFilterFatal(q, filter))
          ELSE Built("AddingFilter", filter, AddingFilter(q, filter))

AddingOrderByCall(inputs) ==
    /\ Running
    /\ Len(q.explicit_order_bys) < MaxOrderBys
    /\ \E order_by \in inputs :
          IF AddingOrderByFatal(q, order_by) # ""
          THEN Abort("AddingOrderBy", AddingOrderByFatal(q, order_by))
          ELSE Built("AddingOrderBy", order_by, AddingOrderBy(q, order_by))

WithLimitToFirstCall(inputs) ==
    /\ Running
    /\ \E limit \in inputs :
          Built("WithLimitToFirst", limit, WithLimitToFirst(q, limit))

WithLimitToLastCall(inputs) ==
    /\ Running
    /\ \E limit \in inputs :
          Built("WithLimitToLast", limit, WithLimitToLast(q, limit))

StartingAtCall(inputs) ==
    /\ Running
    /\ \E bound \in inputs : Built("StartingAt", bound, StartingAt(q, bound))

EndingAtCall(inputs) ==
    /\ Running
    /\ \E bound \in inputs : Built("EndingAt", bound, EndingAt(q, bound))

AsCollectionQueryAtPathCall(inputs) ==
    /\ Running
    /\ \E path \in inputs :
          Built("AsCollectionQueryAtPath", path, AsCollectionQueryAtPath(q, path))

NormalizedOrderBysCall ==
    /\ Running
    /\ IF NormalizedOrderBysFatal(q) # ""
       THEN Abort("normalized_order_bys", NormalizedOrderBysFatal(q))
       ELSE Returned("normalized_order_bys", None, AfterNormalizedOrderBys(q),
                     normalized_order_bys(q))

ToTargetCall ==
    /\ Running
    /\ IF ToTargetFatal(q) # ""
       THEN Abort("ToTarget", ToTargetFatal(q))
       ELSE Returned("ToTarget", None, AfterToTarget(q),
                     AfterToTarget(q).memoized_target[1])

ToAggregateTargetCall ==
    /\ Running
    /\ Returned("ToAggregateTarget", None, AfterToAggregateTarget(q),
                AfterToAggregateTarget(q).memoized_aggregate_target[1])

MatchesCall(inputs) ==
    /\ Running
    /\ \E doc \in inputs :
          IF MatchesNormalizes(q, doc) /\ NormalizedOrderBysFatal(q) # ""
          THEN Abort("Matches", NormalizedOrderBysFatal(q))
          ELSE Returned("Matches", Some(doc),
                        IF MatchesNormalizes(q, doc)
                        THEN AfterNormalizedOrderBys(q) ELSE q,
                        Matches(q, doc))

----------------------------------------------------------------------------
(* The memoizing accessors, statement by statement, called by several      *)
(* threads on one Query. The members are plain mutable members: no lock,   *)
(* no atomic. An assignment to a std::vector or a std::shared_ptr writes   *)
(* several words, so between its first and its last write the member is    *)
(* Torn, and a thread that reads it then reads whatever the build leaves   *)
(* there. The assignment to a shared_ptr releases the Target it owned.     *)

TornOrderBys == <<OrderBy("<torn>", "<torn>")>>
Garbage == Target(<<"<garbage>">>, None, <<>>, <<>>, 0, None, None)
TornTarget == Some(Garbage)

CallerUnchanged == UNCHANGED <<recv, op, arg, ret, fatal>>

Member(member) ==
    IF member = "target" THEN q.memoized_target ELSE q.memoized_aggregate_target

SetMember(member, value) ==
    IF member = "target" THEN [q EXCEPT !.memoized_target = value]
    ELSE [q EXCEPT !.memoized_aggregate_target = value]

MemberOf(accessor) == IF accessor = "ToTarget" THEN "target" ELSE "aggregate"

(* a thread calls one of the three accessors *)
ThreadCall(t) ==
    /\ fatal = ""
    /\ pc[t] = "idle"
    /\ \E accessor \in {"normalized_order_bys", "ToTarget", "ToAggregateTarget"} :
          /\ fn' = [fn EXCEPT ![t] = accessor]
          /\ pc' = [pc EXCEPT ![t] =
                      IF accessor = "normalized_order_bys" THEN "norm_check"
                      ELSE "target_check"]
    /\ UNCHANGED <<q, seen, ref, got, alloc>>
    /\ CallerUnchanged

(* if (memoized_target == nullptr), if (memoized_aggregate_target == nullptr) *)
TargetCheck(t) ==
    /\ pc[t] = "target_check"
    /\ \E is_null \in BOOLEAN :
          /\ Member(MemberOf(fn[t])) = None => is_null
          /\ Member(MemberOf(fn[t])) \notin {None, TornTarget} => ~is_null
          /\ pc' = [pc EXCEPT ![t] =
                      IF ~is_null THEN "target_return"
                      ELSE IF fn[t] = "ToTarget" THEN "norm_check"
                      ELSE "target_store"]
    /\ UNCHANGED <<q, fn, seen, ref, got, alloc>>
    /\ CallerUnchanged

(* if (memoized_normalized_order_bys_.empty()) *)
NormCheck(t) ==
    /\ pc[t] = "norm_check"
    /\ \E is_empty \in BOOLEAN :
          /\ q.memoized_normalized_order_bys = <<>> => is_empty
          /\ q.memoized_normalized_order_bys \notin {<<>>, TornOrderBys} => ~is_empty
          /\ pc' = [pc EXCEPT ![t] = IF is_empty THEN "norm_store" ELSE "norm_return"]
    /\ UNCHANGED <<q, fn, seen, ref, got, alloc>>
    /\ CallerUnchanged

(* memoized_normalized_order_bys_ = ...: the assignment starts *)
NormStoreBegin(t) ==
    /\ pc[t] = "norm_store"
    /\ q' = [q EXCEPT !.memoized_normalized_order_bys = TornOrderBys]
    /\ pc' = [pc EXCEPT ![t] = "norm_storing"]
    /\ UNCHANGED <<fn, seen, ref, got, alloc>>
    /\ CallerUnchanged

(* ... and ends *)
NormStoreEnd(t) ==
    /\ pc[t] = "norm_storing"
    /\ q' = [q EXCEPT !.memoized_normalized_order_bys = ComputeNormalizedOrderBys(q)]
    /\ pc' = [pc EXCEPT ![t] = "norm_return"]
    /\ UNCHANGED <<fn, seen, ref, got, alloc>>
    /\ CallerUnchanged

(* return memoized_normalized_order_bys_: the caller reads the list through *)
(* the reference, ToTarget() to build the Target from it                    *)
NormReturn(t) ==
    /\ pc[t] = "norm_return"
    /\ IF fn[t] = "normalized_order_bys"
       THEN /\ got' = [got EXCEPT ![t] = Some(q.memoized_normalized_order_bys)]
            /\ pc' = [pc EXCEPT ![t] = "done"]
            /\ UNCHANGED seen
       ELSE /\ seen' = [seen EXCEPT ![t] = q.memoized_normalized_order_bys]
            /\ pc' = [pc EXCEPT ![t] = "target_store"]
            /\ UNCHANGED got
    /\ UNCHANGED <<q, fn, ref, alloc>>
    /\ CallerUnchanged

(* the Target a thread builds: from the list it read, or from the explicit *)
(* order-bys                                                               *)
BuiltTarget(t) ==
    IF fn[t] = "ToAggregateTarget" THEN ToTargetOf(q, q.explicit_order_bys)
    ELSE ToTargetOf(q, seen[t])

(* memoized_target = ToTarget(...): the assignment starts; the Target the *)
(* member owned is released                                               *)
TargetStoreBegin(t) ==
    /\ pc[t] = "target_store"
    /\ q' = SetMember(MemberOf(fn[t]), TornTarget)
    /\ alloc' = [alloc EXCEPT ![MemberOf(fn[t])] = 0]
    /\ pc' = [pc EXCEPT ![t] = "target_storing"]
    /\ UNCHANGED <<fn, seen, ref, got>>
    /\ CallerUnchanged

(* ... and ends: the member owns this thread's Target *)
TargetStoreEnd(t) ==
    /\ pc[t] = "target_storing"
    /\ q' = SetMember(MemberOf(fn[t]), Some(BuiltTarget(t)))
    /\ alloc' = [alloc EXCEPT ![MemberOf(fn[t])] = t]
    /\ pc' = [pc EXCEPT ![t] = "target_return"]
    /\ UNCHANGED <<fn, seen, ref, got>>
    /\ CallerUnchanged

(* return *memoized_target: a reference to the Target the member owns now *)
TargetReturn(t) ==
    /\ pc[t] = "target_return"
    /\ ref' = [ref EXCEPT ![t] = alloc[MemberOf(fn[t])]]
    /\ pc' = [pc EXCEPT ![t] = "target_use"]
    /\ UNCHANGED <<q, fn, seen, got, alloc>>
    /\ CallerUnchanged

(* the caller reads the Target through the reference; if the member has   *)
(* been assigned since, the Target is destroyed and the read is of freed  *)
(* memory: the old bytes or anything else                                 *)
TargetUse(t) ==
    /\ pc[t] = "target_use"
    /\ IF ref[t] # 0 /\ alloc[MemberOf(fn[t])] = ref[t]
       THEN got' = [got EXCEPT ![t] = Some(Member(MemberOf(fn[t]))[1])]
       ELSE \E value \in {Garbage, ToTargetOf(q, q.explicit_order_bys),
                          ToTargetOf(q, ComputeNormalizedOrderBys(q))} :
               got' = [got EXCEPT ![t] = Some(value)]
    /\ pc' = [pc EXCEPT ![t] = "done"]
    /\ UNCHANGED <<q, fn, seen, ref, alloc>>
    /\ CallerUnchanged

----------------------------------------------------------------------------
(* Inputs *)

ScoreAbove == FieldFilter("score", ">", 10)
RankAbove == FieldFilter("rank", ">", 10)
RankIs == FieldFilter("rank", "==", 15)
KeyAbove == FieldFilter(KeyFieldPath, ">", 0)
RankIsOrScoreAbove == CompositeFilter("or", <<RankIs, ScoreAbove>>)
ScoreAndRankAbove == CompositeFilter("and", <<ScoreAbove, RankAbove>>)

Filters ==
    {ScoreAbove, RankAbove, RankIs, KeyAbove, RankIsOrScoreAbove,
     ScoreAndRankAbove}

Directions == {"Ascending", "Descending"}

OrderBys == {OrderBy(f, d) : f \in {KeyFieldPath, "score"}, d \in Directions}

QueryPaths == {<<>>, <<"a">>, <<"a", "b">>, <<"a", "b", "c">>}

Groups == {None, Some("b")}

FreshQueries == {Query(path, group) : path \in QueryPaths, group \in Groups}

InitWith(queries) ==
    /\ q \in queries
    /\ recv = q
    /\ op = "Query"
    /\ arg = None
    /\ ret = None
    /\ fatal = ""
    /\ pc = [t \in Threads |-> "idle"]
    /\ fn = [t \in Threads |-> ""]
    /\ seen = [t \in Threads |-> <<>>]
    /\ ref = [t \in Threads |-> 0]
    /\ got = [t \in Threads |-> None]
    /\ alloc = [member \in {"target", "aggregate"} |-> 0]

(* The builders that decide filters, orderings and scope, and order-by *)
(* normalization                                                       *)
(* a collection query, a document query, a collection-group query (rooted *)
(* at the empty path, as the note in MatchesPathAndCollectionGroup says)  *)
Init == InitWith({Query(<<"a", "b">>, None), Query(<<"a", "b", "c">>, None),
                  Query(<<>>, Some("b"))})

Next ==
    \/ AddingFilterCall(Filters)
    \/ AddingOrderByCall(OrderBys)
    \/ AsCollectionQueryAtPathCall({<<"a", "b">>, <<"a", "b", "c">>})
    \/ NormalizedOrderBysCall

Spec == Init /\ [][Next]_vars

(* Every builder, and the two targets *)
InitTarget == InitWith({Query(<<"a", "b">>, None), Query(<<>>, Some("b"))})

NextTarget ==
    \/ AddingFilterCall({ScoreAbove})
    \/ AddingOrderByCall({OrderBy("score", "Ascending"),
                          OrderBy(KeyFieldPath, "Descending")})
    \/ WithLimitToFirstCall({1})
    \/ WithLimitToLastCall({2})
    \/ StartingAtCall({Bound(<<5>>, TRUE)})
    \/ EndingAtCall({Bound(<<10>>, FALSE)})
    \/ AsCollectionQueryAtPathCall({<<"a", "b">>})
    \/ ToTargetCall
    \/ ToAggregateTargetCall

SpecTarget == InitTarget /\ [][NextTarget]_vars

(* Matching *)
DocPaths == {<<"a", "b", "c">>, <<"c", "b", "c">>, <<"a", "c", "c">>}

Docs ==
    {Document(TRUE, path, score, rank) :
        path \in DocPaths, score \in {None, Some(5), Some(15)},
        rank \in {None, Some(15)}}
    \cup {Document(FALSE, <<"a", "b", "c">>, Some(15), Some(15))}

InitMatch == InitWith(FreshQueries)

NextMatch ==
    \/ AddingFilterCall({ScoreAbove, RankIsOrScoreAbove})
    \/ AddingOrderByCall({OrderBy("score", "Descending"),
                          OrderBy("rank", "Ascending")})
    \/ StartingAtCall({Bound(<<10>>, FALSE)})
    \/ MatchesCall(Docs)

SpecMatch == InitMatch /\ [][NextMatch]_vars

(* Concurrent first calls on one Query built through the builders *)
SharedQueries ==
    {WithLimitToLast(AddingFilter(Query(<<"a", "b">>, None), ScoreAbove), 2),
     AddingOrderBy(Query(<<"a", "b">>, None), OrderBy("rank", "Descending")),
     StartingAt(Query(<<"a", "b">>, Some("b")), Bound(<<5>>, TRUE))}

InitThreads == InitWith(SharedQueries)

NextThreads ==
    \E t \in Threads :
        \/ ThreadCall(t)
        \/ TargetCheck(t)
        \/ NormCheck(t)
        \/ NormStoreBegin(t)
        \/ NormStoreEnd(t)
        \/ NormReturn(t)
        \/ TargetStoreBegin(t)
        \/ TargetStoreEnd(t)
        \/ TargetReturn(t)
        \/ TargetUse(t)

SpecThreads == InitThreads /\ [][NextThreads]_vars

----------------------------------------------------------------------------
(* Properties: order-by normalization and the builder assertions (Spec) *)

HasKeyClause(order_bys) ==
    \E i \in 1..Len(order_bys) : IsKeyFieldPath(order_bys[i].field)

LastClause(order_bys) == order_bys[Len(order_bys)]

NormalizedReturned == op = "normalized_order_bys" /\ fatal = ""

(* C1, as claimed: whatever the builders made, normalized_order_bys() is *)
(* non-empty and its last clause is the clause on the document key.      *)
C1_LastClauseIsKey ==
    NormalizedReturned =>
        /\ ret[1] # <<>>
        /\ IsKeyFieldPath(LastClause(ret[1]).field)

(* C1, amended: normalized_order_bys() is non-empty and holds a clause on *)
(* the document key; that clause is the last one when no explicit clause  *)
(* orders by key or the last explicit clause does; when an explicit key   *)
(* ordering is followed by further explicit orderings the result is the   *)
(* explicit list as given, whose last clause is not the key clause.       *)
C1_KeyClausePresent ==
    NormalizedReturned =>
        LET explicit == q.explicit_order_bys
            keyLastOrAbsent ==
                \/ ~HasKeyClause(explicit)
                \/ IsKeyFieldPath(LastClause(explicit).field)
        IN /\ ret[1] # <<>>
           /\ HasKeyClause(ret[1])
           /\ keyLastOrAbsent => IsKeyFieldPath(LastClause(ret[1]).field)
           /\ ~keyLastOrAbsent =>
                 /\ ret[1] = explicit
                 /\ ~IsKeyFieldPath(LastClause(ret[1]).field)

(* an explicit key ordering followed by a further explicit ordering *)
C1_Witness ==
    /\ NormalizedReturned
    /\ Len(q.explicit_order_bys) = 2
    /\ IsKeyFieldPath(q.explicit_order_bys[1].field)
    /\ ~IsKeyFieldPath(q.explicit_order_bys[2].field)
    /\ ret[1] = q.explicit_order_bys

InequalityLeafFields(qq) ==
    {GetFlattenedFilters(qq.filters[i])[j].field :
        <<i, j>> \in {<<i, j>> \in (1..Len(qq.filters)) \X (1..4) :
                        /\ j <= Len(GetFlattenedFilters(qq.filters[i]))
                        /\ IsInequality(GetFlattenedFilters(qq.filters[i])[j].op)}}

(* C2: in every query the builders return, all inequality leaves of the  *)
(* filters, nested ones included, constrain one field, and the first     *)
(* explicit ordering, if any, is on that field.                          *)
C2_OneInequalityField ==
    fatal = "" =>
        /\ Cardinality(InequalityLeafFields(q)) <= 1
        /\ (q.explicit_order_bys # <<>> /\ InequalityLeafFields(q) # {}) =>
              InequalityLeafFields(q) = {q.explicit_order_bys[1].field}

(* C3, as claimed: a query on a document-shaped path has no filter and no *)
(* explicit ordering.                                                     *)
C3_DocumentPathIsBare ==
    IsDocumentKey(q.path) =>
        q.filters = <<>> /\ q.explicit_order_bys = <<>>

(* C3, amended: a query for which IsDocumentQuery() holds (document-shaped *)
(* path, no collection group, no filter) and that has no explicit ordering *)
(* gains neither by any call: AddingFilter and AddingOrderBy end in their  *)
(* fatal assertion on it.                                                  *)
C3_DocumentQueryStaysBare ==
    [][(IsDocumentQuery(q) /\ q.explicit_order_bys = <<>>) =>
          /\ q'.filters = <<>>
          /\ q'.explicit_order_bys = <<>>
          /\ op' = "AddingFilter" =>
                fatal' = "No filter is allowed for document query"
          /\ op' = "AddingOrderBy" =>
                fatal' = "No ordering is allowed for document query"]_vars

C3_Witness ==
    /\ op = "AddingFilter"
    /\ fatal = "No filter is allowed for document query"

(* the list the claim C6 describes *)
C6_Described(qq) ==
    LET I == InequalityFilterField(qq)
        explicit == qq.explicit_order_bys
        implicitKey ==
            OrderBy(KeyFieldPath,
                    IF Len(explicit) = 0 THEN "Ascending"
                    ELSE explicit[Len(explicit)].direction)
    IN CASE I # None /\ Len(explicit) = 0 /\ I[1] = KeyFieldPath ->
                <<OrderBy(KeyFieldPath, "Ascending")>>
         [] I # None /\ Len(explicit) = 0 /\ I[1] # KeyFieldPath ->
                <<OrderBy(I[1], "Ascending"), OrderBy(KeyFieldPath, "Ascending")>>
         [] OTHER ->
                IF \A i \in 1..Len(explicit) : explicit[i].field # KeyFieldPath
                THEN explicit \o <<implicitKey>>
                ELSE explicit

(* C6: normalized_order_bys() returns, and memoizes, the list described: *)
(* the inequality field and the key ascending when there is an           *)
(* inequality and no explicit ordering, else the explicit orderings      *)
(* followed, if none is on the key, by the key in the last direction.    *)
C6_NormalizedAsDescribed ==
    NormalizedReturned =>
        /\ ret[1] = C6_Described(q)
        /\ q.memoized_normalized_order_bys = ret[1]

(* the implicit key ordering took a descending last direction *)
C6_Witness ==
    /\ NormalizedReturned
    /\ q.explicit_order_bys # <<>>
    /\ ~HasKeyClause(q.explicit_order_bys)
    /\ LastClause(ret[1]) = OrderBy(KeyFieldPath, "Descending")

(* C10: the assertion inside normalized_order_bys() never fails on a *)
(* query the builders returned.                                      *)
C10_NormalizationNeverAsserts ==
    ~(/\ op \in {"normalized_order_bys", "ToTarget", "Matches"}
      /\ fatal # "")

(* normalization passed its assertion with an inequality and an ordering *)
C10_Witness ==
    /\ NormalizedReturned
    /\ InequalityFilterField(q) # None
    /\ q.explicit_order_bys # <<>>
    /\ Len(q.filters) = 2

----------------------------------------------------------------------------
(* Properties: the Target and the builders' frame (SpecTarget) *)

TargetReturned == op = "ToTarget" /\ fatal = ""

(* C4: for limit type Last, ToTarget() carries normalized_order_bys() with *)
(* every direction flipped, the end cursor as start and the start cursor   *)
(* as end, and path, collection group, filters and limit as they are; for  *)
(* First and None it carries the list and both cursors unchanged.          *)
C4_TargetAsDescribed ==
    TargetReturned =>
        LET target == ret[1]
            normalized == normalized_order_bys(q)
        IN /\ q.memoized_target = Some(target)
           /\ target.path = q.path
           /\ target.collection_group = q.collection_group
           /\ target.filters = q.filters
           /\ target.limit = q.limit
           /\ IF q.limit_type = "Last"
              THEN /\ Len(target.order_bys) = Len(normalized)
                   /\ \A i \in 1..Len(normalized) :
                         /\ target.order_bys[i].field = normalized[i].field
                         /\ target.order_bys[i].direction \in Directions
                         /\ target.order_bys[i].direction # normalized[i].direction
                   /\ target.start_at = q.end_at
                   /\ target.end_at = q.start_at
              ELSE /\ target.order_bys = normalized
                   /\ target.start_at = q.start_at
                   /\ target.end_at = q.end_at

(* a limit-to-last query with both cursors and an explicit ordering *)
C4_Witness ==
    /\ TargetReturned
    /\ q.limit_type = "Last"
    /\ q.start_at # None
    /\ q.end_at # None
    /\ q.start_at # q.end_at
    /\ q.explicit_order_bys # <<>>
    /\ Len(ret[1].order_bys) >= 2

QueryFields ==
    {"path", "collection_group", "filters", "explicit_order_bys", "limit",
     "limit_type", "start_at", "end_at"}

Builders ==
    {"AddingFilter", "AddingOrderBy", "WithLimitToFirst", "WithLimitToLast",
     "StartingAt", "EndingAt", "AsCollectionQueryAtPath"}

(* the returned query equals the receiver outside the named fields *)
OnlyChanges(fields) == \A f \in QueryFields \ fields : q'[f] = q[f]

(* C8: a builder call leaves its receiver as it was and returns a query    *)
(* that differs from it only in what that builder sets: one filter or one  *)
(* ordering appended, limit and limit type both replaced, one cursor       *)
(* replaced, or the path replaced and the collection group cleared.        *)
C8_BuildersFrame ==
    [][(op' \in Builders /\ fatal' = "") =>
          /\ recv' = q
          /\ q'.memoized_normalized_order_bys = <<>>
          /\ q'.memoized_target = None
          /\ q'.memoized_aggregate_target = None
          /\ op' = "AddingFilter" =>
                /\ q'.filters = Append(q.filters, arg'[1])
                /\ OnlyChanges({"filters"})
          /\ op' = "AddingOrderBy" =>
                /\ q'.explicit_order_bys = Append(q.explicit_order_bys, arg'[1])
                /\ OnlyChanges({"explicit_order_bys"})
          /\ op' = "WithLimitToFirst" =>
                /\ q'.limit = arg'[1]
                /\ q'.limit_type = "First"
                /\ OnlyChanges({"limit", "limit_type"})
          /\ op' = "WithLimitToLast" =>
                /\ q'.limit = arg'[1]
                /\ q'.limit_type = "Last"
                /\ OnlyChanges({"limit", "limit_type"})
          /\ op' = "StartingAt" =>
                /\ q'.start_at = arg'
                /\ OnlyChanges({"start_at"})
          /\ op' = "EndingAt" =>
                /\ q'.end_at = arg'
                /\ OnlyChanges({"end_at"})
          /\ op' = "AsCollectionQueryAtPath" =>
                /\ q'.path = arg'[1]
                /\ q'.collection_group = None
                /\ OnlyChanges({"path", "collection_group"})]_vars

(* a collection-group query with filter, ordering, limit and cursors was *)
(* rebound to a collection path                                          *)
C8_Witness ==
    /\ op = "AsCollectionQueryAtPath"
    /\ recv.collection_group # None
    /\ q.collection_group = None
    /\ q.path # recv.path
    /\ q.filters # <<>>
    /\ q.explicit_order_bys # <<>>
    /\ q.limit_type = "Last"
    /\ q.start_at # None
    /\ q.end_at # None

----------------------------------------------------------------------------
(* Properties: matching (SpecMatch) *)

MatchesReturned == op = "Matches" /\ fatal = ""

LacksOrderByField(qq, doc) ==
    \E i \in 1..Len(normalized_order_bys(qq)) :
        /\ ~IsKeyFieldPath(normalized_order_bys(qq)[i].field)
        /\ DocField(doc, normalized_order_bys(qq)[i].field) = None

(* C5: a document without a value at the field of a non-key clause of   *)
(* normalized_order_bys() never matches, whatever the filters say; for  *)
(* the collection query with the one filter score > 10 a document with  *)
(* score 15 matches, one with score 5 or without score does not.        *)
C5_OrderByFieldRequired ==
    MatchesReturned =>
        LET doc == arg[1]
        IN /\ LacksOrderByField(q, doc) => ret[1] = FALSE
           /\ (/\ q = AddingFilter(Query(<<"a", "b">>, None), ScoreAbove)
                    \/ q = AfterNormalizedOrderBys(
                               AddingFilter(Query(<<"a", "b">>, None), ScoreAbove))
               /\ doc.found
               /\ doc.path = <<"a", "b", "c">>) =>
                 /\ DocField(doc, "score") = Some(15) => ret[1] = TRUE
                 /\ DocField(doc, "score") = Some(5) => ret[1] = FALSE
                 /\ DocField(doc, "score") = None => ret[1] = FALSE

(* every filter matches a document in scope that lacks the ordering field *)
C5_Witness ==
    /\ MatchesReturned
    /\ arg[1].found
    /\ MatchesPathAndCollectionGroup(q, arg[1])
    /\ q.filters # <<>>
    /\ MatchesFilters(q, arg[1])
    /\ DocField(arg[1], "score") = None
    /\ LacksOrderByField(q, arg[1])
    /\ ret[1] = FALSE

(* the scope the claim C7 describes *)
C7_InScope(qq, doc) ==
    IF qq.collection_group = None THEN
        IF Len(qq.path) % 2 = 1 THEN doc.path = qq.path
        ELSE \E i \in 1..Len(doc.path) :
                i = Len(doc.path) /\ doc.path = Append(qq.path, doc.path[i])
    ELSE
        /\ Len(doc.path) >= 2
        /\ doc.path[Len(doc.path) - 1] = qq.collection_group[1]
        /\ Len(qq.path) <= Len(doc.path)
        /\ \A i \in 1..Len(qq.path) : qq.path[i] = doc.path[i]

Unconstrained(qq) ==
    /\ qq.filters = <<>>
    /\ qq.explicit_order_bys = <<>>
    /\ qq.start_at = None
    /\ qq.end_at = None

(* C7: a document matches only in scope, and an existing document        *)
(* matches a query without filters, orderings and cursors exactly when   *)
(* in scope: under the immediate parent path, at the document path       *)
(* itself, or in the collection group under the path; so a/b/c matches   *)
(* the query at a/b and neither the one at a nor the one at the root.    *)
C7_ScopeAsDescribed ==
    MatchesReturned =>
        LET doc == arg[1]
        IN /\ ret[1] = TRUE => C7_InScope(q, doc)
           /\ (doc.found /\ Unconstrained(q)) => ret[1] = C7_InScope(q, doc)
           /\ (/\ doc.found
               /\ Unconstrained(q)
               /\ q.collection_group = None
               /\ doc.path = <<"a", "b", "c">>) =>
                 /\ q.path = <<"a", "b">> => ret[1] = TRUE
                 /\ q.path \in {<<>>, <<"a">>} => ret[1] = FALSE
                 /\ q.path = <<"a", "b", "c">> => ret[1] = TRUE

(* the document a/b/c matched the query at its parent a/b *)
C7_Witness ==
    /\ MatchesReturned
    /\ q.collection_group = None
    /\ q.path = <<"a", "b">>
    /\ arg[1].path = <<"a", "b", "c">>
    /\ ret[1] = TRUE

----------------------------------------------------------------------------
(* Properties: concurrent first calls (SpecThreads) *)

(* what a call made alone on the query returns *)
SingleThreaded(accessor) ==
    IF accessor = "normalized_order_bys" THEN ComputeNormalizedOrderBys(q)
    ELSE IF accessor = "ToTarget" THEN ToTargetOf(q, ComputeNormalizedOrderBys(q))
    ELSE ToTargetOf(q, q.explicit_order_bys)

(* C9: under every interleaving each caller reads, through what its call *)
(* returned, the complete value a call made alone returns.               *)
C9_EveryCallerReadsTheValue ==
    \A t \in Threads :
        pc[t] = "done" => got[t] = Some(SingleThreaded(fn[t]))

====
